---- MODULE Spec2Model ----
(***************************************************************************)
(* Model of mapping_atlas_by_voxel.ipynb: the pipeline that maps the Allen *)
(* 3D atlas annotation onto one 2D section image.  Coordinates are kept as *)
(* fixed-point integers (tenths of a micron); pixel coordinates are exact  *)
(* rationals over the common denominator PixDen until they are rounded.    *)
(* Sequences are 1-based where numpy arrays are 0-based.                   *)
(***************************************************************************)
EXTENDS Integers, Sequences, FiniteSets, TLC

\* ---------------------------------------------------------------- bounds
ImgH == 16
ImgW == 16
DimA == 4
DimB == 2
DimC == 2

\* ------------------------------------------------------ program constants
section_no == 62
Root == 997
Resolution == 25
SectionSpacing == 100
Downsample == 16
ErosionIterations == 6
HighlightBlue == 255
Unit == 10
TwoDNum == 432
TwoDDen == 100

Voxels == {<<a, b, c>> : a \in 0..(DimA - 1), b \in 0..(DimB - 1), c \in 0..(DimC - 1)}
Pixels == {<<r, c>> : r \in 0..(ImgH - 1), c \in 0..(ImgW - 1)}

\* ------------------------------------------------- structure tree (data)
StructureIds == {997, 8, 549, 313, 856, 215, 1008, 1014, 138, 218, 1029, 170}

Parent ==
  [s \in StructureIds |->
     CASE s = 997 -> 0
       [] s = 8 -> 997
       [] s = 549 -> 8
       [] s = 313 -> 8
       [] s = 856 -> 549
       [] s = 215 -> 313
       [] s = 1008 -> 856
       [] s = 1014 -> 856
       [] s = 138 -> 856
       [] s = 218 -> 138
       [] s = 1029 -> 138
       [] s = 170 -> 1008]

RECURSIVE ancestor_ids(_)
\* structure_id_path of s: the chain from the root down to s itself
ancestor_ids(s) ==
  IF Parent[s] = 0 THEN <<s>> ELSE Append(ancestor_ids(Parent[s]), s)

Depth(s) == Len(ancestor_ids(s))

IsAncestor(a, d) ==
  a # d /\ \E i \in 1..Len(ancestor_ids(d)) : ancestor_ids(d)[i] = a

acrnm_map ==
  [k \in {"GENd", "GENv", "LP", "POL", "APN", "LGd", "root"} |->
     CASE k = "GENd" -> 1008
       [] k = "GENv" -> 1014
       [] k = "LP" -> 218
       [] k = "POL" -> 1029
       [] k = "APN" -> 215
       [] k = "LGd" -> 170
       [] k = "root" -> 997]

colormap ==
  [s \in StructureIds |->
     CASE s = 997 -> <<255, 255, 255>>
       [] s = 8 -> <<191, 218, 227>>
       [] s = 549 -> <<255, 112, 128>>
       [] s = 313 -> <<255, 100, 255>>
       [] s = 856 -> <<255, 128, 132>>
       [] s = 215 -> <<255, 144, 255>>
       [] s = 1008 -> <<255, 128, 132>>
       [] s = 1014 -> <<255, 144, 159>>
       [] s = 138 -> <<255, 128, 132>>
       [] s = 218 -> <<250, 120, 130>>
       [] s = 1029 -> <<251, 121, 131>>
       [] s = 170 -> <<255, 128, 132>>]

get_structure_ids(acrnms) ==
  [i \in 1..Len(acrnms) |-> acrnm_map[acrnms[i]]]

\* ------------------------------------------------------------ input data
\* annotation volume with background voxels
AnnoV1 ==
  [v \in Voxels |->
     CASE v[1] = 0 -> 218
       [] v[1] = 1 /\ v[2] = 0 /\ v[3] = 0 -> 170
       [] v[1] = 1 /\ v[2] = 0 /\ v[3] = 1 -> 1014
       [] v[1] = 1 /\ v[2] = 1 /\ v[3] = 0 -> 215
       [] v[1] = 2 /\ v[2] = 0 /\ v[3] = 0 -> 997
       [] v[1] = 2 /\ v[2] = 0 /\ v[3] = 1 -> 8
       [] v[1] = 2 /\ v[2] = 1 /\ v[3] = 0 -> 170
       [] v[1] = 3 /\ v[2] = 0 /\ v[3] = 0 -> 215
       [] v[1] = 3 /\ v[2] = 1 /\ v[3] < 2 -> 1029
       [] OTHER -> 0]

\* the same volume with every background voxel labelled 8
AnnoV2 == [v \in Voxels |-> IF AnnoV1[v] = 0 THEN 8 ELSE AnnoV1[v]]

ZeroField == [v \in Voxels |-> <<0, 0, 0>>]

\* a deformation that moves voxels of one atlas slice onto different sections
BentField ==
  [v \in Voxels |->
     CASE v[1] = 0 /\ v[3] = 1 -> <<0, 0, 40>>
       [] v[1] = 1 /\ v[2] = 0 /\ v[3] = 0 -> <<103, 0, 0>>
       [] v[1] = 2 /\ v[2] = 0 /\ v[3] = 0 -> <<18, 0, 0>>
       [] v[1] = 3 /\ v[2] = 0 -> <<250, 0, 0>>
       [] v[1] = 3 /\ v[2] = 1 -> <<300, 0, 0>>
       [] OTHER -> <<0, 0, 0>>]

\* affine parameters: atlas axis 0 -> z, axis 1 -> y, axis 2 -> x, plus offset
AxisSwap == <<<<0, 0, 1>>, <<0, 1, 0>>, <<1, 0, 0>>>>

AffChoices ==
  { [m |-> AxisSwap, t |-> <<40, 40, 61500>>],
    [m |-> AxisSwap, t |-> <<-600, 40, 61500>>],
    [m |-> AxisSwap, t |-> <<-100, 150, 62000>>] }

AcrnmChoices ==
  { <<"GENd", "GENv", "LP", "POL", "APN">>, <<"LP", "LP", "APN">> }

\* the section image (any RGB raster of the image's size)
arr == [p \in Pixels |-> <<10 + p[1], 10 + p[2], 7>>]

\* ------------------------------------------------------- numeric helpers
\* np.round of the rational n/d (d > 0): nearest integer, ties to even
np_round(n, d) ==
  LET q == n \div d
      r == n - q * d
  IN  IF 2 * r < d THEN q
      ELSE IF 2 * r > d THEN q + 1
      ELSE IF q % 2 = 0 THEN q ELSE q + 1

RECURSIVE SortedSeq(_)
\* ascending sequence of a finite set of integers (np.unique, np.where order)
SortedSeq(S) ==
  IF S = {} THEN <<>>
  ELSE LET m == CHOOSE x \in S : \A y \in S : x <= y
       IN  <<m>> \o SortedSeq(S \ {m})

np_unique(S) == SortedSeq(S)

Range(s) == {s[i] : i \in 1..Len(s)}

VoxelRank(v) == (v[1] * DimB + v[2]) * DimC + v[3]

\* np.array(np.where(mask)).T : the voxels of a mask in row-major order
np_where_T(mask) ==
  LET ranks == SortedSeq({VoxelRank(v) : v \in mask})
  IN  [i \in 1..Len(ranks) |-> CHOOSE v \in mask : VoxelRank(v) = ranks[i]]

\* --------------------------------------------- library calls, as documented
\* rsp.make_structure_mask([s]): voxels labelled s or a descendant of s
make_structure_mask(vol, s) ==
  {v \in Voxels : vol[v] \in StructureIds
                  /\ \E i \in 1..Len(ancestor_ids(vol[v])) :
                       ancestor_ids(vol[v])[i] = s}

\* dfmfld_transform.TransformPoint: the point plus the field's displacement
dfmfld_TransformPoint(field, v) ==
  [i \in 1..3 |-> v[i] * Resolution * Unit + field[v][i]]

\* aff_trans.TransformPoint: matrix times point plus translation
aff_TransformPoint(aff, q) ==
  [i \in 1..3 |->
     aff.m[i][1] * q[1] + aff.m[i][2] * q[2] + aff.m[i][3] * q[3] + aff.t[i]]

\* lines 299-300 / 366-367: both transforms mapped over the points
TransformPoints(field, aff, pts) ==
  [i \in 1..Len(pts) |-> aff_TransformPoint(aff, dfmfld_TransformPoint(field, pts[i]))]

\* variant of SelectLoc that rounds exact halves upwards
SelectLocHalfUp(t) ==
  SortedSeq({i \in 1..Len(t) :
               (2 * t[i][3] + SectionSpacing * Unit) \div (2 * SectionSpacing * Unit)
                 = section_no})

\* lines 302-303 / 370-371: sections = np.round(tfp[:,2]/100); np.where(== section_no)
SelectLoc(t) ==
  SortedSeq({i \in 1..Len(t) : np_round(t[i][3], SectionSpacing * Unit) = section_no})

\* ------------------------------------------------------- scipy.ndimage
\* default structuring element: the 4-connected cross with its centre
Cross(p) ==
  {p, <<p[1] - 1, p[2]>>, <<p[1] + 1, p[2]>>, <<p[1], p[2] - 1>>, <<p[1], p[2] + 1>>}

binary_erosion(S, border_value) ==
  {p \in Pixels :
     \A q \in Cross(p) : IF q \in Pixels THEN q \in S ELSE border_value = 1}

binary_dilation(S, border_value) ==
  {p \in Pixels :
     \E q \in Cross(p) : IF q \in Pixels THEN q \in S ELSE border_value = 1}

RECURSIVE masked_dilation(_, _, _)
\* binary_dilation(tmp, iterations=-1, mask=mask): repeat until nothing changes,
\* touching only the pixels of mask
masked_dilation(tmp, mask, border_value) ==
  LET grown == binary_dilation(tmp, border_value)
      nxt == {p \in Pixels : IF p \in mask THEN p \in grown ELSE p \in tmp}
  IN  IF nxt = tmp THEN tmp ELSE masked_dilation(nxt, mask, border_value)

\* variant of binary_fill_holes whose flood does not start at the image border
binary_fill_holes_border0(S) == Pixels \ masked_dilation({}, Pixels \ S, 0)

binary_fill_holes(S) == Pixels \ masked_dilation({}, Pixels \ S, 1)

binary_closing(S) == binary_erosion(binary_dilation(S, 0), 0)

RECURSIVE erode_n(_, _)
\* for i in np.arange(n): inner = ndi.binary_erosion(inner)
erode_n(S, n) == IF n = 0 THEN S ELSE erode_n(binary_erosion(S, 0), n - 1)

\* ------------------------------------------------------ numpy array shapes
RECURSIVE squeeze(_)
\* shape after ndarray.squeeze(): every axis of length 1 is removed
squeeze(shape) ==
  IF shape = <<>> THEN <<>>
  ELSE IF Head(shape) = 1 THEN squeeze(Tail(shape))
       ELSE <<Head(shape)>> \o squeeze(Tail(shape))

RECURSIVE ShapeSize(_)
ShapeSize(shape) ==
  IF shape = <<>> THEN 1 ELSE Head(shape) * ShapeSize(Tail(shape))

\* shape after reshape((-1,2))
reshape_rows2(shape) == <<ShapeSize(shape) \div 2, 2>>

\* Python's slice bound normalisation for an axis of length n
PySliceIdx(i, n) ==
  IF i < 0 THEN (IF i + n < 0 THEN 0 ELSE i + n)
  ELSE IF i > n THEN n ELSE i

PySlice(lo, hi, n) == PySliceIdx(lo, n) .. (PySliceIdx(hi, n) - 1)

\* ------------------------------------------------- per-structure rasterizer
PixDen == TwoDDen * Downsample * Unit

\* lines 374-377: mapped_points = tfp[loc,:2]*twoD/(2**4), squeeze, + size,
\* round, reshape((-1,2)); each row is <<x, y, x', y'>> after astype(int)
RoundedPoints(t, l) ==
  LET k == Len(l)
      flat == [j \in 1..(2 * k) |-> t[l[(j + 1) \div 2]][2 - (j % 2)] * TwoDNum]
      size == Resolution * Unit * TwoDNum
      shape == reshape_rows2(squeeze(<<1, k, 2>>))
  IN  [i \in 1..shape[1] |->
         << np_round(flat[2 * i - 1], PixDen), np_round(flat[2 * i], PixDen),
            np_round(flat[2 * i - 1] + size, PixDen),
            np_round(flat[2 * i] + size, PixDen) >>]

\* lines 380-385: blank[y:y', x:x'] = 1 for every rounded point
PaintBlank(rows) ==
  UNION { PySlice(rows[i][2], rows[i][4], ImgH) \X PySlice(rows[i][1], rows[i][3], ImgW)
          : i \in 1..Len(rows) }

\* line 386
FilledArea(b) == binary_closing(binary_fill_holes(b))

RECURSIVE dilate_n(_, _)
dilate_n(S, n) == IF n = 0 THEN S ELSE dilate_n(binary_dilation(S, 0), n - 1)

\* variant of BoundaryMask that takes the rim outside the mask
BoundaryMaskOuter(a) ==
  LET outer == dilate_n(a, ErosionIterations)
  IN  {p \in Pixels :
         (IF p \in outer THEN 1 ELSE 0) - (IF p \in a THEN 1 ELSE 0) = 1}

\* lines 396-400: boundary = area - inner ; np.where(boundary == 1)
BoundaryMask(a) ==
  LET inner == erode_n(a, ErosionIterations)
  IN  {p \in Pixels :
         (IF p \in a THEN 1 ELSE 0) - (IF p \in inner THEN 1 ELSE 0) = 1}

\* lines 391-392: area_image[:,:,i][area_mask] = color[i]
PaintColor(img, mask, color) ==
  [p \in Pixels |-> IF p \in mask THEN color ELSE img[p]]

\* variant of PaintBoundary that leaves out the blue channel assignment
PaintBoundaryBlack(img, mask) ==
  [p \in Pixels |-> IF p \in mask THEN <<0, 0, 0>> ELSE img[p]]

\* lines 401-403: all three channels to 0, then the blue channel to 255
PaintBoundary(img, mask) ==
  LET zeroed == [p \in Pixels |-> IF p \in mask THEN <<0, 0, 0>> ELSE img[p]]
  IN  [p \in Pixels |->
         IF p \in mask THEN <<zeroed[p][1], zeroed[p][2], HighlightBlue>>
         ELSE zeroed[p]]

\* ------------------------------------------------------ structure discovery
\* variant of StructuresInSection that reads the labels at the selected voxels only
StructuresInSectionAtVoxels(vol, pts, l) ==
  LET labels == np_unique({vol[pts[l[i]]] : i \in 1..Len(l)} \cup {0})
  IN  Tail(labels)

\* lines 305-306: labels of the whole atlas slices named by the selected
\* points' first index, sorted, first one dropped
StructuresInSection(vol, pts, l) ==
  LET anno_loc == np_unique({pts[l[i]][1] : i \in 1..Len(l)})
      labels == np_unique({vol[v] : v \in {w \in Voxels : w[1] \in Range(anno_loc)}})
  IN  IF labels = <<>> THEN <<>> ELSE Tail(labels)

\* variant of UnionRegions that appends without the membership test
UnionRegionsAppendAll(structs, regs) == structs \o regs

RECURSIVE UnionRegions(_, _)
\* lines 322-324
UnionRegions(structs, regs) ==
  IF regs = <<>> THEN structs
  ELSE UnionRegions(IF Head(regs) \notin Range(structs)
                      THEN Append(structs, Head(regs)) ELSE structs,
                    Tail(regs))

RECURSIVE ArgSortsOf(_, _)
ArgSortsOf(keys, rem) ==
  IF rem = {} THEN {<<>>}
  ELSE UNION { {<<i>> \o s : s \in ArgSortsOf(keys, rem \ {i})}
               : i \in {j \in rem : \A k \in rem : keys[j] <= keys[k]} }

\* variant of ArgSorts that keeps the list order
ArgSortsUnsorted(keys) == {[i \in 1..Len(keys) |-> i]}

\* variant of ArgSorts that orders the longest chain first
ArgSortsDescending(keys) == ArgSortsOf([i \in 1..Len(keys) |-> 0 - keys[i]], 1..Len(keys))

\* line 326: np.argsort (default kind, not stable): any index order that
\* puts the keys in non-decreasing order
ArgSorts(keys) == ArgSortsOf(keys, 1..Len(keys))

\* ------------------------------------------------------------------ state
\* The loop cells read `regions` (lines 322 and 395), a name no cell of the
\* notebook assigns; the kernel that ran it held the list of region ids, so
\* it is modelled as the value of regions_of_interest (line 162).
VARIABLES
  anno,                  \* annotation volume
  dfmfld,                \* deformation field
  aff_param,             \* affine parameters
  regions,               \* ids of the regions of interest
  pc,                    \* position in the notebook
  root_points,           \* voxels of the root mask
  tfp,                   \* transformed points currently held
  loc,                   \* indices of tfp selected for the section
  structures_in_section, \* structure ids to draw
  sorted_indx,           \* drawing order (indices into structures_in_section)
  num,                   \* number of loop iterations completed
  rounded_points,        \* rounded footprints of the last iteration
  blank,                 \* canvas of the last iteration
  area,                  \* filled mask of the last iteration
  areas,                 \* filled mask of every iteration so far
  area_image,
  boundary_image,
  files                  \* output files written

vars ==
  << anno, dfmfld, aff_param, regions, pc, root_points, tfp, loc,
     structures_in_section, sorted_indx, num, rounded_points, blank, area,
     areas, area_image, boundary_image, files >>

inputs == << anno, dfmfld, aff_param, regions >>

OutputFiles == {"area.png", "boundary.png", "color_composite.png"}

\* every structure of the tree has a voxel (rsp.remove_unassigned), and the
\* voxels' labels are structures of the tree or background
Init ==
  /\ anno \in {AnnoV1, AnnoV2}
  /\ dfmfld \in {ZeroField, BentField}
  /\ aff_param \in AffChoices
  /\ regions \in {get_structure_ids(a) : a \in AcrnmChoices}
  /\ pc = "discover"
  /\ root_points = <<>>
  /\ tfp = <<>>
  /\ loc = <<>>
  /\ structures_in_section = <<>>
  /\ sorted_indx = <<>>
  /\ num = 0
  /\ rounded_points = <<>>
  /\ blank = {}
  /\ area = {}
  /\ areas = <<>>
  /\ area_image = <<>>
  /\ boundary_image = <<>>
  /\ files = {}

\* lines 287-306: root mask, its transformed points, the selection and the
\* structures found in the selected slices
Discover ==
  /\ pc = "discover"
  /\ LET pts == np_where_T(make_structure_mask(anno, Root))
         t == TransformPoints(dfmfld, aff_param, pts)
         l == SelectLoc(t)
     IN  /\ root_points' = pts
         /\ tfp' = t
         /\ loc' = l
         /\ structures_in_section' = StructuresInSection(anno, pts, l)
  /\ pc' = "union"
  /\ UNCHANGED << inputs, sorted_indx, num, rounded_points, blank, area, areas,
                  area_image, boundary_image, files >>

\* lines 322-326: union of the regions, then the argsort by chain length
UnionSort ==
  /\ pc = "union"
  /\ LET all == UnionRegions(structures_in_section, regions)
     IN  /\ structures_in_section' = all
         /\ sorted_indx' \in ArgSorts([i \in 1..Len(all) |-> Depth(all[i])])
  /\ pc' = "images"
  /\ UNCHANGED << inputs, root_points, tfp, loc, num, rounded_points, blank,
                  area, areas, area_image, boundary_image, files >>

\* lines 349-350
CopyImages ==
  /\ pc = "images"
  /\ area_image' = arr
  /\ boundary_image' = arr
  /\ pc' = IF Len(structures_in_section) = 0 THEN "save_area" ELSE "loop"
  /\ UNCHANGED << inputs, root_points, tfp, loc, structures_in_section,
                  sorted_indx, num, rounded_points, blank, area, areas, files >>

\* the structure drawn by the (0-based) n-th iteration
StructAt(n) == structures_in_section[sorted_indx[n + 1]]

\* lines 359-403: one iteration of the mapping loop
MapStructure ==
  /\ pc = "loop"
  /\ num < Len(structures_in_section)
  /\ LET struct == StructAt(num)
         t == IF struct # Root
                THEN TransformPoints(dfmfld, aff_param,
                                     np_where_T(make_structure_mask(anno, struct)))
                ELSE tfp
         l == IF struct # Root THEN SelectLoc(t) ELSE loc
         rows == RoundedPoints(t, l)
         b == PaintBlank(rows)
         a == FilledArea(b)
     IN  /\ tfp' = t
         /\ loc' = l
         /\ rounded_points' = rows
         /\ blank' = b
         /\ area' = a
         /\ areas' = Append(areas, a)
         /\ area_image' = PaintColor(area_image, a, colormap[struct])
         /\ boundary_image' =
              IF struct \in Range(regions)
                THEN PaintBoundary(boundary_image, BoundaryMask(a))
                ELSE boundary_image
  /\ num' = num + 1
  /\ pc' = IF num + 1 = Len(structures_in_section) THEN "save_area" ELSE "loop"
  /\ UNCHANGED << inputs, root_points, structures_in_section, sorted_indx, files >>

\* lines 406-407
SaveArea ==
  /\ pc = "save_area"
  /\ files' = files \cup {"area.png"}
  /\ pc' = "save_boundary"
  /\ UNCHANGED << inputs, root_points, tfp, loc, structures_in_section,
                  sorted_indx, num, rounded_points, blank, area, areas,
                  area_image, boundary_image >>

\* lines 408-409
SaveBoundary ==
  /\ pc = "save_boundary"
  /\ files' = files \cup {"boundary.png"}
  /\ pc' = "save_composite"
  /\ UNCHANGED << inputs, root_points, tfp, loc, structures_in_section,
                  sorted_indx, num, rounded_points, blank, area, areas,
                  area_image, boundary_image >>

\* lines 412-419: the composite is built from the jpg and area.png
SaveComposite ==
  /\ pc = "save_composite"
  /\ "area.png" \in files
  /\ files' = files \cup {"color_composite.png"}
  /\ pc' = "done"
  /\ UNCHANGED << inputs, root_points, tfp, loc, structures_in_section,
                  sorted_indx, num, rounded_points, blank, area, areas,
                  area_image, boundary_image >>

\* any of the save / open calls of lines 406-419 raises (nothing catches it)
SaveFails ==
  /\ pc \in {"save_area", "save_boundary", "save_composite"}
  /\ pc' = "failed"
  /\ UNCHANGED << inputs, root_points, tfp, loc, structures_in_section,
                  sorted_indx, num, rounded_points, blank, area, areas,
                  area_image, boundary_image, files >>

Next ==
  \/ Discover
  \/ UnionSort
  \/ CopyImages
  \/ MapStructure
  \/ SaveArea
  \/ SaveBoundary
  \/ SaveComposite
  \/ SaveFails

Spec == Init /\ [][Next]_vars

\* ----------------------------------------------------------------- claims
LoopFinished == pc = "save_area" /\ num = Len(structures_in_section) /\ num > 0

\* index of the last iteration whose filled mask covers pixel p (0 if none)
LastCover(p) ==
  LET S == {k \in 1..Len(areas) : p \in areas[k]}
  IN  IF S = {} THEN 0 ELSE CHOOSE k \in S : \A j \in S : j <= k

\* C1 as stated: once the loop has finished, for every ancestor/descendant
\* pair of the structure list each pixel covered by both filled masks has the
\* descendant's colour.
C1_DescendantColour ==
  LoopFinished =>
    \A i, j \in 1..num :
      IsAncestor(StructAt(i - 1), StructAt(j - 1)) =>
        \A p \in areas[i] \cap areas[j] : area_image[p] = colormap[StructAt(j - 1)]

\* C1 amended: the descendant is painted after its ancestor, and each pixel
\* covered by both filled masks ends with the colour of the last structure in
\* sorted order that covers it, a structure painted no earlier than the
\* descendant and with a chain at least as long; it is the descendant's own
\* colour when nothing painted later covers the pixel.
C1_DepthOrdered ==
  LoopFinished =>
    \A i, j \in 1..num :
      IsAncestor(StructAt(i - 1), StructAt(j - 1)) =>
        /\ i < j
        /\ \A p \in areas[i] \cap areas[j] :
             LET k == LastCover(p)
             IN  /\ k >= j
                 /\ Depth(StructAt(k - 1)) >= Depth(StructAt(j - 1))
                 /\ area_image[p] = colormap[StructAt(k - 1)]
                 /\ (k = j => area_image[p] = colormap[StructAt(j - 1)])

C1_Witness ==
  /\ LoopFinished
  /\ \E i, j \in 1..num :
       /\ IsAncestor(StructAt(i - 1), StructAt(j - 1))
       /\ sorted_indx[i] > sorted_indx[j]
       /\ \E p \in areas[i] \cap areas[j] :
            LastCover(p) = j /\ area_image[p] # colormap[StructAt(i - 1)]

Count(seq, x) == Cardinality({i \in 1..Len(seq) : seq[i] = x})

Abs(x) == IF x < 0 THEN -x ELSE x

Selected(i) == i \in Range(loc)

HasZ(z) == \E i \in 1..Len(tfp) : tfp[i][3] = z

\* C3 as stated: a point is kept exactly when z/100 rounded to the nearest
\* integer is the target section, and the half-way value 6250.0 is rejected
\* for section 62 while 6185.3 and 6201.8 are kept.
C3_HalfWayRejected ==
  pc # "discover" =>
    \A i \in 1..Len(tfp) :
      LET off == 2 * Abs(tfp[i][3] - section_no * SectionSpacing * Unit)
      IN  /\ off < SectionSpacing * Unit => Selected(i)
          /\ off > SectionSpacing * Unit => ~Selected(i)
          /\ tfp[i][3] \in {61853, 62018} => Selected(i)
          /\ tfp[i][3] = 62500 => ~Selected(i)

\* C3 amended: a point is kept exactly when z/100 rounded to the nearest
\* integer, exact halves going to the even neighbour, is the target section;
\* for z = [6185.3, 6201.8, 6250.0] and section 62 all three points are kept
\* (62.5 rounds to 62).
C3_SectionSelection ==
  pc # "discover" =>
    \A i \in 1..Len(tfp) :
      LET off == 2 * Abs(tfp[i][3] - section_no * SectionSpacing * Unit)
      IN  /\ Selected(i) <=>
               \/ off < SectionSpacing * Unit
               \/ off = SectionSpacing * Unit /\ section_no % 2 = 0
          /\ tfp[i][3] \in {61853, 62018, 62500} => Selected(i)

C3_Witness ==
  /\ pc = "union"
  /\ HasZ(61853) /\ HasZ(62018) /\ HasZ(62500)
  /\ \A i \in 1..Len(tfp) : tfp[i][3] \in {61853, 62018, 62500} => Selected(i)
  /\ \E i \in 1..Len(tfp) : ~Selected(i)

\* C4: in an iteration for a region of interest every pixel that the
\* boundary image changes, and every pixel of the boundary mask, lies in the
\* structure's filled area mask.
C4_BoundaryInsideArea ==
  [][ (pc = "loop" /\ StructAt(num) \in Range(regions)) =>
        /\ \A p \in Pixels : boundary_image'[p] # boundary_image[p] => p \in area'
        /\ BoundaryMask(area') \subseteq area' ]_vars

C4_Witness ==
  /\ num > 0
  /\ pc = "loop"
  /\ StructAt(num - 1) \in Range(regions)
  /\ BoundaryMask(area) # {}
  /\ BoundaryMask(area) # area
  /\ \A p \in BoundaryMask(area) : boundary_image[p] = <<0, 0, HighlightBlue>>
  /\ \E p \in area : boundary_image[p] = arr[p]

\* the structure's 3D mask has voxels, none of them on the target section
NoVoxelOnSection(s) ==
  LET t == TransformPoints(dfmfld, aff_param, np_where_T(make_structure_mask(anno, s)))
  IN  /\ Len(t) > 0
      /\ \A i \in 1..Len(t) :
           2 * Abs(t[i][3] - section_no * SectionSpacing * Unit) > SectionSpacing * Unit

\* C5: the iteration for a non-root structure with no voxel on the target
\* section completes (the loop moves on) and changes no pixel of the area
\* image and none of the boundary image.
C5_EmptyRegionDrawsNothing ==
  [][ (pc = "loop" /\ StructAt(num) # Root /\ NoVoxelOnSection(StructAt(num))) =>
        /\ area_image' = area_image
        /\ boundary_image' = boundary_image
        /\ num' = num + 1
        /\ pc' \in {"loop", "save_area"} ]_vars

C5_Witness ==
  /\ num > 1
  /\ StructAt(num - 1) # Root
  /\ StructAt(num - 1) \in Range(regions)
  /\ NoVoxelOnSection(StructAt(num - 1))
  /\ blank = {} /\ area = {} /\ loc = <<>>
  /\ area_image # arr

SelectedVoxels == {root_points[loc[i]] : i \in 1..Len(loc)}

SliceLabels ==
  {anno[v] : v \in {w \in Voxels : \E u \in SelectedVoxels : u[1] = w[1]}}

InnerByDistance(a, n) ==
  {p \in a : \A dr \in (-n)..n : \A dc \in (-(n - Abs(dr)))..(n - Abs(dr)) :
               <<p[1] + dr, p[2] + dc>> \in a}

C8_AllOrNothing ==
  pc \in {"done", "failed"} => (files = {} \/ files = OutputFiles)

\* the pixels of the footprints' squares that lie inside the image
ClippedSquares(rows) ==
  {p \in Pixels : \E i \in 1..Len(rows) :
     /\ rows[i][1] <= p[2] /\ p[2] < rows[i][3]
     /\ rows[i][2] <= p[1] /\ p[1] < rows[i][4]}

\* C9 as stated: the pixels set on the blank canvas are exactly the pixels of
\* the footprints' squares [x, x') x [y, y') that lie inside the image.
C9_FootprintInsideSquare ==
  num > 0 => blank = ClippedSquares(rounded_points)

OwnPoints(s) ==
  LET t == TransformPoints(dfmfld, aff_param, np_where_T(make_structure_mask(anno, s)))
  IN  RoundedPoints(t, SelectLoc(t))

\* C10: whenever the root structure is about to be processed, tfp and loc
\* are the ones computed from the root mask during discovery, and after every
\* iteration the rasterized points are those of the processed structure's own
\* mask on the target section.
C10_OwnPointsRasterized ==
  /\ (pc = "loop" /\ StructAt(num) = Root) =>
        /\ tfp = TransformPoints(dfmfld, aff_param, root_points)
        /\ loc = SelectLoc(tfp)
        /\ num = 0
  /\ num > 0 => rounded_points = OwnPoints(StructAt(num - 1))

C10_Witness ==
  /\ pc = "loop"
  /\ num = 1
  /\ StructAt(0) = Root
  /\ sorted_indx[1] > 1
  /\ rounded_points # <<>>
  /\ rounded_points = OwnPoints(Root)

====
